---- MODULE Spec2Model ----
(***************************************************************************)
(* A model of manage_plugins.py: the plugin summary document, the text     *)
(* codec for one entry's paragraph, and the interactive menu that adds,    *)
(* edits and deletes entries.                                              *)
(*                                                                         *)
(* Text is a sequence of one-character strings.  The three characters of   *)
(* the command label are written "ming", "ling" and "colon".               *)
(* Plugin names are the numbers 1..NumNames, standing for identifiers in   *)
(* ascending lexicographic order (1 = alpha, 2 = beta, 3 = gamma).         *)
(***************************************************************************)
EXTENDS Integers, Sequences, FiniteSets, TLC

VARIABLES
    doc,            \* the content of HTML_FILE, a sequence of elements
    dirs,           \* the names get_plugins_from_dir finds
    pc,             \* where the program is: "menu", "sync", "extra", "edit", "return", or a codec step
    missing,        \* sync_plugins: the list of names to prompt for
    extra,          \* sync_plugins: the list of names only the document has
    idx,            \* sync_plugins: position of the loop in missing
    action,         \* sync_plugins: the answer read at the prompt
    out,            \* the result message printed by the last step
    name,           \* the plugin name in that message or in the prompt, 0 if none
    description,    \* description handed to add_plugin_to_html / text_to_html
    commands,       \* command lines handed to add_plugin_to_html / text_to_html
    plugin,         \* edit_plugin: the dict edit_plugin_in_html returned
    new_desc,       \* edit_plugin: draft description
    new_commands,   \* edit_plugin: draft command list
    encoded,        \* codec: result of text_to_html
    decoded         \* codec: result of parse_plugin_content

vars == <<doc, dirs, pc, missing, extra, idx, action, out, name, description, commands,
          plugin, new_desc, new_commands, encoded, decoded>>

----------------------------------------------------------------------------
(* Bounds *)

NumNames == 3          \* plugin names
MaxCmds == 1           \* command lines of one entry
MaxDescLen == 2        \* codec: characters of a description
MaxCmdLen == 3         \* codec: characters of a command line
MaxCodecCmds == 2      \* codec: command lines

Names == 1..NumNames

----------------------------------------------------------------------------
(* Strings *)

BR == <<"<", "b", "r", ">">>
CODE_OPEN == <<"<", "c", "o", "d", "e", ">">>
CODE_CLOSE == <<"<", "/", "c", "o", "d", "e", ">">>
LABEL == BR \o BR \o <<"ming", "ling", "colon">>
AMP == <<"&", "a", "m", "p", ";">>
LT == <<"&", "l", "t", ";">>
GT == <<"&", "g", "t", ";">>

MatchAt(s, i, pat) ==
    /\ i + Len(pat) - 1 <= Len(s)
    /\ SubSeq(s, i, i + Len(pat) - 1) = pat

Contains(s, pat) == \E i \in 1..Len(s) : MatchAt(s, i, pat)

\* str.replace(old, new) and re.sub of a literal pattern: every
\* non-overlapping occurrence, left to right.
RECURSIVE replace(_, _, _)
replace(s, old, new) ==
    IF s = <<>> THEN <<>>
    ELSE IF MatchAt(s, 1, old)
         THEN new \o replace(SubSeq(s, Len(old) + 1, Len(s)), old, new)
         ELSE <<Head(s)>> \o replace(Tail(s), old, new)

\* str.split(sep, 1)
split1(s, sep) ==
    IF Contains(s, sep)
    THEN LET i == CHOOSE k \in 1..Len(s) :
                    /\ MatchAt(s, k, sep)
                    /\ \A j \in 1..(k - 1) : ~MatchAt(s, j, sep)
         IN  <<SubSeq(s, 1, i - 1), SubSeq(s, i + Len(sep), Len(s))>>
    ELSE <<s>>

\* str.split(sep)
RECURSIVE split(_, _)
split(s, sep) ==
    LET parts == split1(s, sep)
    IN  IF Len(parts) = 1 THEN <<s>> ELSE <<parts[1]>> \o split(parts[2], sep)

\* str.join
RECURSIVE join(_, _)
join(parts, sep) ==
    IF parts = <<>> THEN <<>>
    ELSE IF Len(parts) = 1 THEN parts[1]
    ELSE parts[1] \o sep \o join(Tail(parts), sep)

\* str.strip(); the space is the only whitespace of the alphabet
RECURSIVE lstrip(_)
lstrip(s) == IF s # <<>> /\ Head(s) = " " THEN lstrip(Tail(s)) ELSE s

RECURSIVE rstrip(_)
rstrip(s) ==
    IF s # <<>> /\ s[Len(s)] = " " THEN rstrip(SubSeq(s, 1, Len(s) - 1)) ELSE s

strip(s) == rstrip(lstrip(s))

\* .replace('&', '&amp;').replace('<', '&lt;').replace('>', '&gt;')
escape(s) == replace(replace(replace(s, <<"&">>, AMP), <<"<">>, LT), <<">">>, GT)

\* .replace('&lt;', '<').replace('&gt;', '>').replace('&amp;', '&')
unescape(s) == replace(replace(replace(s, LT, <<"<">>), GT, <<">">>), AMP, <<"&">>)

----------------------------------------------------------------------------
(* Text codec *)

\* one element of cmd_parts in text_to_html
cmd_part(cmd) ==
    LET parts == split1(cmd, <<" ">>)
        cmd_name == parts[1]
        cmd_desc == IF Len(parts) > 1 THEN parts[2] ELSE <<>>
    IN  CODE_OPEN \o cmd_name \o CODE_CLOSE \o <<" ">> \o escape(cmd_desc)

RECURSIVE cmd_parts(_)
cmd_parts(cmds) ==
    IF cmds = <<>> THEN <<>>
    ELSE LET cmd == strip(Head(cmds))
         IN  (IF cmd # <<>> THEN <<cmd_part(cmd)>> ELSE <<>>) \o cmd_parts(Tail(cmds))

text_to_html(desc0, cmds) ==
    LET desc == escape(desc0)
        parts == cmd_parts(cmds)
    IN  IF cmds = <<>> THEN desc
        ELSE IF parts # <<>> THEN desc \o LABEL \o join(parts, BR)
        ELSE desc

parse_plugin_content(html_content) ==
    LET has == Contains(html_content, LABEL)
        parts == split1(html_content, LABEL)
        desc == IF has THEN parts[1] ELSE html_content
        cmd_html == IF has
                    THEN replace(replace(parts[2], CODE_OPEN, <<>>), CODE_CLOSE, <<>>)
                    ELSE <<>>
        cmds == IF has THEN split(cmd_html, BR) ELSE <<>>
    IN  <<unescape(desc), [i \in 1..Len(cmds) |-> unescape(cmds[i])]>>

----------------------------------------------------------------------------
(* The document *)

(***************************************************************************)
(* The document is the sequence of its elements; the whitespace between    *)
(* them is left out (every template the program writes puts a newline      *)
(* between two elements).  An element has a kind t, a name or number n,    *)
(* and text c:                                                             *)
(*   toc_open       <div class="toc-list">                                 *)
(*   a              <a href="#n">n</a>                                     *)
(*   toc_close      </div> </div>                                          *)
(*   count          the count marker with the number n                     *)
(*   h3             <h3 id="n">n</h3>                                      *)
(*   p              <p>c</p>                                               *)
(*   hr             <hr>                                                   *)
(*   article_close  </article>                                             *)
(***************************************************************************)
Elem(t, n, c) == [t |-> t, n |-> n, c |-> c]

TocOpen == Elem("toc_open", 0, <<>>)
TocClose == Elem("toc_close", 0, <<>>)
Link(n) == Elem("a", n, <<>>)
Count(k) == Elem("count", k, <<>>)
H3(n) == Elem("h3", n, <<>>)
P(c) == Elem("p", 0, c)
Hr == Elem("hr", 0, <<>>)
ArticleClose == Elem("article_close", 0, <<>>)

\* the names (or numbers) of the elements of kind t, in document order
NamesOf(html, t) ==
    LET sel == SelectSeq(html, LAMBDA e : e.t = t)
    IN  [i \in 1..Len(sel) |-> sel[i].n]

Range(s) == {s[i] : i \in 1..Len(s)}

\* sorted(set(...))
RECURSIVE sorted_set(_)
sorted_set(S) ==
    IF S = {} THEN <<>>
    ELSE LET m == CHOOSE x \in S : \A y \in S : x <= y
         IN  <<m>> \o sorted_set(S \ {m})

\* sorted(...) of a list
sorted(s) == SortSeq(s, LAMBDA x, y : x < y)

IndexOf(s, x) == CHOOSE i \in 1..Len(s) : s[i] = x

get_plugins_from_dir == sorted_set(dirs)

get_plugins_from_html(html) == sorted(NamesOf(html, "h3"))

\* a write that keeps the marker as it was
update_plugin_count_stale(html) == html

update_plugin_count(html) ==
    LET actual_count == Len(NamesOf(html, "h3"))
    IN  [i \in 1..Len(html) |->
            IF html[i].t = "count" THEN Count(actual_count) ELSE html[i]]

\* what write_html stores in the file
write_html(content) == update_plugin_count(content)

----------------------------------------------------------------------------
(* Mutation engine *)

\* index of the first element of kind t at or after position k, 0 if none
FirstOf(html, k, t) ==
    IF \E i \in k..Len(html) : html[i].t = t
    THEN CHOOSE i \in k..Len(html) :
            /\ html[i].t = t
            /\ \A j \in k..(i - 1) : html[j].t # t
    ELSE 0

\* re.search of the table-of-contents block: <<start, end>>, or <<0, 0>>
toc_match(html) ==
    LET i == FirstOf(html, 1, "toc_open")
        j == IF i = 0 THEN 0 ELSE FirstOf(html, i + 1, "toc_close")
    IN  IF j = 0 THEN <<0, 0>> ELSE <<i, j>>

\* re.sub of the table-of-contents block by a rendered one
RECURSIVE sub_toc(_, _)
sub_toc(html, block) ==
    LET m == toc_match(html)
    IN  IF m[1] = 0 THEN html
        ELSE SubSeq(html, 1, m[1] - 1) \o block
                 \o sub_toc(SubSeq(html, m[2] + 1, Len(html)), block)

\* lines 58-68 of add_plugin_to_html
update_toc(html, n) ==
    LET m == toc_match(html)
        existing_links == NamesOf(SubSeq(html, m[1] + 1, m[2] - 1), "a")
        all_names == sorted_set(Range(existing_links) \cup {n})
        new_links == [i \in 1..Len(all_names) |-> Link(all_names[i])]
    IN  IF m[1] = 0 THEN html
        ELSE sub_toc(html, <<TocOpen>> \o new_links \o <<TocClose>>)

\* one element of cmd_parts in add_plugin_to_html: nothing is escaped
add_cmd_part(cmd) ==
    LET parts == split1(cmd, <<" ">>)
        cmd_name == parts[1]
        cmd_desc == IF Len(parts) > 1 THEN parts[2] ELSE <<>>
    IN  CODE_OPEN \o cmd_name \o CODE_CLOSE \o <<" ">> \o cmd_desc

RECURSIVE add_cmd_parts(_)
add_cmd_parts(lines) ==
    IF lines = <<>> THEN <<>>
    ELSE LET cmd == strip(Head(lines))
         IN  (IF cmd # <<>> THEN <<add_cmd_part(cmd)>> ELSE <<>>)
                 \o add_cmd_parts(Tail(lines))

\* lines 70-82; the commands string is kept as the list of its lines
commands_html(lines) ==
    LET parts == add_cmd_parts(lines)
    IN  IF parts # <<>> THEN LABEL \o join(parts, BR) ELSE <<>>

\* lines 84-88
plugin_html(n, desc, lines) == <<H3(n), P(desc \o commands_html(lines)), Hr>>

\* re.sub of '<hr> </article>' by '<hr> fragment </article>'
RECURSIVE sub_last(_, _)
sub_last(html, frag) ==
    IF Len(html) < 2 THEN html
    ELSE IF html[1].t = "hr" /\ html[2].t = "article_close"
         THEN <<Hr>> \o frag \o <<ArticleClose>>
                  \o sub_last(SubSeq(html, 3, Len(html)), frag)
         ELSE <<Head(html)>> \o sub_last(Tail(html), frag)

\* re.sub of the heading of next_plugin by the fragment and that heading
RECURSIVE sub_before(_, _, _)
sub_before(html, next_plugin, frag) ==
    IF html = <<>> THEN <<>>
    ELSE (IF Head(html).t = "h3" /\ Head(html).n = next_plugin
          THEN frag \o <<Head(html)>>
          ELSE <<Head(html)>>) \o sub_before(Tail(html), next_plugin, frag)

\* lines 90-102 of add_plugin_to_html
insert_plugin(html, n, frag) ==
    LET plugins == sorted_set(Range(get_plugins_from_html(doc)) \cup {n})
        insert_index == IndexOf(plugins, n)
    IN  IF insert_index = Len(plugins)
        THEN sub_last(html, frag)
        ELSE sub_before(html, plugins[insert_index + 1], frag)

\* the text add_plugin_to_html hands to write_html
add_plugin_to_html(n, desc, lines) ==
    insert_plugin(update_toc(doc, n), n, plugin_html(n, desc, lines))

\* search of the pattern of edit_plugin_in_html: position of the heading, 0 if none.
\* Every paragraph of the documents reached here is followed by its own
\* separator, so the lazy paragraph match ends at the entry's own paragraph.
EntryAt(html, i, n) ==
    /\ i + 2 <= Len(html)
    /\ html[i] = H3(n)
    /\ html[i + 1].t = "p"
    /\ html[i + 2].t = "hr"

entry_match(html, n) ==
    IF \E i \in 1..Len(html) : EntryAt(html, i, n)
    THEN CHOOSE i \in 1..Len(html) :
            /\ EntryAt(html, i, n)
            /\ \A j \in 1..(i - 1) : ~EntryAt(html, j, n)
    ELSE 0

\* re.sub of the entry pattern by frag (frag = <<>> deletes the entry)
RECURSIVE sub_entry(_, _, _)
sub_entry(html, n, frag) ==
    IF html = <<>> THEN <<>>
    ELSE IF EntryAt(html, 1, n)
         THEN frag \o sub_entry(SubSeq(html, 4, Len(html)), n, frag)
         ELSE <<Head(html)>> \o sub_entry(Tail(html), n, frag)

\* the dict edit_plugin_in_html returns; the update closure keeps html
edit_plugin_in_html(n) ==
    LET i == entry_match(doc, n)
        parsed == parse_plugin_content(doc[i + 1].c)
    IN  [name |-> n, description |-> parsed[1], commands |-> parsed[2], html |-> doc]

\* the text _update_plugin hands to write_html
update_plugin(n, new_content, html) ==
    sub_entry(html, n, <<H3(n), P(new_content), Hr>>)

\* a delete whose paragraph match is greedy: it runs to the last separator
delete_plugin_greedy(n) ==
    LET without_link == SelectSeq(doc, LAMBDA e : ~(e.t = "a" /\ e.n = n))
        i == entry_match(without_link, n)
        j == CHOOSE k \in 1..Len(without_link) :
                /\ without_link[k].t = "hr"
                /\ \A l \in (k + 1)..Len(without_link) : without_link[l].t # "hr"
    IN  IF i = 0 THEN without_link
        ELSE SubSeq(without_link, 1, i - 1)
                 \o SubSeq(without_link, j + 1, Len(without_link))

\* the text delete_plugin_from_html hands to write_html
delete_plugin_from_html(n) ==
    LET without_link == SelectSeq(doc, LAMBDA e : ~(e.t = "a" /\ e.n = n))
    IN  sub_entry(without_link, n, <<>>)

----------------------------------------------------------------------------
(* Inputs *)

\* descriptions typed at the prompts (input().strip(), not empty): plain
\* text, and text with a reserved character
PlainDescs == {<<"d">>}
Descs == {<<"d">>, <<"<">>}

\* the command line typed at the prompts: a command without explanation
CmdLine == <<".", "p">>

\* command lists typed in sync_plugins, up to the empty line
SyncCmdInputs == {[i \in 1..k |-> CmdLine] : k \in 0..MaxCmds}

\* the plugin folders of the directory: every name but the first
FsNames == Names \ {1}

\* A document that meets the structure the patterns need: an optional
\* table of contents, the count marker, an optional separator that belongs
\* to no entry, the entries in ascending order and the closing marker.
RECURSIVE Entries(_)
Entries(ns) ==
    IF ns = <<>> THEN <<>>
    ELSE plugin_html(Head(ns), <<"d">>, <<>>) \o Entries(Tail(ns))

Document(S, preface, toc, k) ==
    LET ns == sorted_set(S)
    IN  (IF toc
         THEN <<TocOpen>> \o [i \in 1..Len(ns) |-> Link(ns[i])] \o <<TocClose>>
         ELSE <<>>)
        \o <<Count(k)>>
        \o (IF preface THEN <<Hr>> ELSE <<>>)
        \o Entries(ns)
        \o <<ArticleClose>>

NoPlugin == [name |-> 0, description |-> <<>>, commands |-> <<>>, html |-> <<>>]

----------------------------------------------------------------------------
(* The menu: sync_plugins *)

Idle ==
    /\ missing = <<>> /\ extra = <<>> /\ idx = 0 /\ action = "-"
    /\ description = <<>> /\ commands = <<>>
    /\ plugin = NoPlugin /\ new_desc = <<>> /\ new_commands = <<>>

NoCodec == encoded = <<>> /\ decoded = <<>>

InitWith(tocs) ==
    /\ \E S \in SUBSET Names, preface \in BOOLEAN, toc \in tocs, k \in 0..NumNames :
          /\ preface \/ S # {}
          /\ doc = Document(S, preface, toc, k)
    /\ dirs = FsNames
    /\ pc = "menu"
    /\ out = "-"
    /\ name = 0
    /\ Idle
    /\ NoCodec

Init == InitWith({TRUE})

\* lines 196-212
SyncStart ==
    /\ pc = "menu"
    /\ LET dir_plugins == get_plugins_from_dir
           html_plugins == get_plugins_from_html(doc)
           m == SelectSeq(dir_plugins, LAMBDA q : q \notin Range(html_plugins))
           x == SelectSeq(html_plugins, LAMBDA q : q \notin Range(dir_plugins))
       IN  IF m = <<>> /\ x = <<>>
           THEN /\ out' = "synced"
                /\ pc' = "return"
                /\ UNCHANGED <<missing, extra, idx>>
           ELSE /\ missing' = m
                /\ extra' = x
                /\ idx' = 1
                /\ pc' = IF m # <<>> THEN "sync" ELSE "extra"
                /\ out' = "-"
    /\ name' = 0
    /\ UNCHANGED <<doc, dirs, action, description, commands,
                   plugin, new_desc, new_commands, encoded, decoded>>

\* the for loop moves on to the next name, or ends
NextName ==
    /\ idx' = idx + 1
    /\ pc' = IF idx < Len(missing) THEN "sync" ELSE "extra"

\* a q that moves on to the next name instead of leaving the loop
SyncQuit_continues ==
    /\ pc = "sync"
    /\ action' = "q"
    /\ name' = missing[idx]
    /\ NextName
    /\ out' = "-"
    /\ UNCHANGED <<doc, dirs, missing, extra, description, commands,
                   plugin, new_desc, new_commands, encoded, decoded>>

\* line 218: break
SyncQuit ==
    /\ pc = "sync"
    /\ action' = "q"
    /\ name' = missing[idx]
    /\ pc' = "extra"
    /\ out' = "-"
    /\ UNCHANGED <<doc, dirs, missing, extra, idx, description, commands,
                   plugin, new_desc, new_commands, encoded, decoded>>

\* line 220: continue
SyncSkip ==
    /\ pc = "sync"
    /\ action' = "s"
    /\ name' = missing[idx]
    /\ NextName
    /\ out' = "-"
    /\ UNCHANGED <<doc, dirs, missing, extra, description, commands,
                   plugin, new_desc, new_commands, encoded, decoded>>

\* lines 222-231: read the description and the command lines, then add
SyncAdd(a, d, lines) ==
    /\ pc = "sync"
    /\ a \in {"y", ""}
    /\ action' = a
    /\ name' = missing[idx]
    /\ description' = d
    /\ commands' = lines
    /\ doc' = write_html(add_plugin_to_html(missing[idx], d, lines))
    /\ out' = "added"
    /\ NextName
    /\ UNCHANGED <<dirs, missing, extra, plugin, new_desc, new_commands,
                   encoded, decoded>>

\* any other answer: the loop body does nothing
SyncOther(a) ==
    /\ pc = "sync"
    /\ a \notin {"q", "s", "y", ""}
    /\ action' = a
    /\ name' = missing[idx]
    /\ NextName
    /\ out' = "-"
    /\ UNCHANGED <<doc, dirs, missing, extra, description, commands,
                   plugin, new_desc, new_commands, encoded, decoded>>

\* lines 233-236: the extra names are printed, and sync_plugins returns
SyncExtra ==
    /\ pc = "extra"
    /\ out' = IF extra # <<>> THEN "extra" ELSE "-"
    /\ pc' = "return"
    /\ missing' = <<>> /\ extra' = <<>> /\ idx' = 0 /\ action' = "-"
    /\ description' = <<>> /\ commands' = <<>>
    /\ name' = 0
    /\ UNCHANGED <<doc, dirs, plugin, new_desc, new_commands, encoded, decoded>>

----------------------------------------------------------------------------
(* The menu: edit_plugin *)

\* lines 240-257, edit_plugin_in_html finds no entry
EditNotFound(n) ==
    /\ pc = "menu"
    /\ entry_match(doc, n) = 0
    /\ name' = n
    /\ out' = "notfound"
    /\ pc' = "return"
    /\ UNCHANGED <<doc, dirs, missing, extra, idx, action, description, commands,
                   plugin, new_desc, new_commands, encoded, decoded>>

\* lines 240-260, the entry is loaded into the draft
EditStart(n) ==
    /\ pc = "menu"
    /\ entry_match(doc, n) # 0
    /\ name' = n
    /\ plugin' = edit_plugin_in_html(n)
    /\ new_desc' = plugin'.description
    /\ new_commands' = plugin'.commands
    /\ pc' = "edit"
    /\ out' = "-"
    /\ UNCHANGED <<doc, dirs, missing, extra, idx, action, description, commands,
                   encoded, decoded>>

EditFrame ==
    UNCHANGED <<doc, dirs, pc, missing, extra, idx, action, out, name, description,
                commands, plugin, encoded, decoded>>

\* lines 283-287: d
EditD(desc_input) ==
    /\ pc = "edit"
    /\ new_desc' = IF desc_input # <<>> THEN desc_input ELSE new_desc
    /\ UNCHANGED new_commands
    /\ EditFrame

\* lines 289-301: e <number>
EditE(i, new_cmd) ==
    /\ pc = "edit"
    /\ new_commands' = IF i - 1 >= 0 /\ i - 1 < Len(new_commands) /\ new_cmd # <<>>
                       THEN [new_commands EXCEPT ![i] = new_cmd]
                       ELSE new_commands
    /\ UNCHANGED new_desc
    /\ EditFrame

\* lines 303-307: a
EditA(new_cmd) ==
    /\ pc = "edit"
    /\ Len(new_commands) < MaxCmds
    /\ new_commands' = IF new_cmd # <<>> THEN Append(new_commands, new_cmd)
                       ELSE new_commands
    /\ UNCHANGED new_desc
    /\ EditFrame

\* lines 309-318: r <number>
EditR(i) ==
    /\ pc = "edit"
    /\ new_commands' = IF i - 1 >= 0 /\ i - 1 < Len(new_commands)
                       THEN SubSeq(new_commands, 1, i - 1)
                                \o SubSeq(new_commands, i + 1, Len(new_commands))
                       ELSE new_commands
    /\ UNCHANGED new_desc
    /\ EditFrame

\* lines 320-323: c
EditC(confirm) ==
    /\ pc = "edit"
    /\ new_commands' = IF confirm = "y" THEN <<>> ELSE new_commands
    /\ UNCHANGED new_desc
    /\ EditFrame

EditReturn ==
    /\ pc' = "return"
    /\ plugin' = NoPlugin
    /\ new_desc' = <<>>
    /\ new_commands' = <<>>
    /\ UNCHANGED <<dirs, missing, extra, idx, action, description, commands,
                   encoded, decoded>>

\* lines 325-330 with _update_plugin: s
EditS ==
    /\ pc = "edit"
    /\ IF new_desc # plugin.description \/ new_commands # plugin.commands
       THEN /\ doc' = write_html(update_plugin(plugin.name,
                                     text_to_html(new_desc, new_commands), plugin.html))
            /\ out' = "updated"
            /\ UNCHANGED name
       ELSE /\ UNCHANGED doc
            /\ out' = "unchanged"
            /\ name' = 0
    /\ EditReturn

\* a discard that falls through to the save
EditQ_saves ==
    /\ pc = "edit"
    /\ doc' = write_html(update_plugin(plugin.name,
                             text_to_html(new_desc, new_commands), plugin.html))
    /\ out' = "discarded"
    /\ name' = 0
    /\ EditReturn

\* lines 332-334: q
EditQ ==
    /\ pc = "edit"
    /\ UNCHANGED doc
    /\ out' = "discarded"
    /\ name' = 0
    /\ EditReturn

----------------------------------------------------------------------------
(* The menu: delete_plugin and show_stats *)

MenuFrame ==
    /\ pc' = "return"
    /\ UNCHANGED <<dirs, missing, extra, idx, action, description, commands,
                   plugin, new_desc, new_commands, encoded, decoded>>

\* lines 356-358
DeleteNotFound(n) ==
    /\ pc = "menu"
    /\ n \notin Range(get_plugins_from_html(doc))
    /\ name' = n
    /\ out' = "notfound"
    /\ UNCHANGED doc
    /\ MenuFrame

\* lines 360-364, any answer but y
DeleteCancel(n) ==
    /\ pc = "menu"
    /\ n \in Range(get_plugins_from_html(doc))
    /\ name' = 0
    /\ out' = "cancelled"
    /\ UNCHANGED doc
    /\ MenuFrame

\* lines 360-362 with delete_plugin_from_html
DeleteConfirm(n) ==
    /\ pc = "menu"
    /\ n \in Range(get_plugins_from_html(doc))
    /\ name' = n
    /\ doc' = write_html(delete_plugin_from_html(n))
    /\ out' = "deleted"
    /\ MenuFrame

\* lines 366-380
ShowStats ==
    /\ pc = "menu"
    /\ name' = 0
    /\ out' = "stats"
    /\ UNCHANGED doc
    /\ MenuFrame

\* lines 402-410: the operation has returned, main prints the menu again
MainLoop ==
    /\ pc = "return"
    /\ pc' = "menu"
    /\ out' = "-"
    /\ name' = 0
    /\ UNCHANGED <<doc, dirs, missing, extra, idx, action, description, commands,
                   plugin, new_desc, new_commands, encoded, decoded>>

----------------------------------------------------------------------------
(* The state machine of the menu *)

\* one step of the program, with the descriptions typed in sync_plugins
\* drawn from descs
Step(descs) ==
    \/ SyncStart
    \/ SyncQuit
    \/ SyncSkip
    \/ \E a \in {"y", ""}, d \in descs, lines \in SyncCmdInputs : SyncAdd(a, d, lines)
    \/ \E a \in {"n"} : SyncOther(a)
    \/ SyncExtra
    \/ \E n \in Names : EditNotFound(n)
    \/ \E n \in Names : EditStart(n)
    \/ \E d \in Descs \cup {<<>>} : EditD(d)
    \/ \E i \in 1..(MaxCmds + 1) : EditE(i, CmdLine)
    \/ \E c \in {CmdLine, <<>>} : EditA(c)
    \/ \E i \in 1..(MaxCmds + 1) : EditR(i)
    \/ \E confirm \in {"y", "n"} : EditC(confirm)
    \/ EditS
    \/ EditQ
    \/ \E n \in Names : DeleteNotFound(n)
    \/ \E n \in Names : DeleteCancel(n)
    \/ \E n \in Names : DeleteConfirm(n)
    \/ ShowStats
    \/ MainLoop

\* plain descriptions at the sync prompt, documents with a table of contents
Next == Step(PlainDescs)

Spec == Init /\ [][Next]_vars

\* any description at the sync prompt, documents that may lack the table of
\* contents
InitAnyDoc == InitWith(BOOLEAN)

NextAnyText == Step(Descs)

SpecAnyInput == InitAnyDoc /\ [][NextAnyText]_vars

----------------------------------------------------------------------------
(* The codec on its own: text_to_html, then parse_plugin_content *)

Alphabet == {"a", " ", "&", "<", ">"}
CmdAlphabet == {"p", " ", "<"}

Strs(A, n) == UNION {[1..k -> A] : k \in 0..n}

\* descriptions, among them user text that reads like an entity
CodecDescs == Strs(Alphabet, MaxDescLen) \cup {LT, AMP}

\* command lines as edit_plugin reads them: stripped and not empty
CodecCmdLines == {s \in Strs(CmdAlphabet, MaxCmdLen) : s # <<>> /\ strip(s) = s}

CodecCmdLists == UNION {[1..k -> CodecCmdLines] : k \in 0..MaxCodecCmds}

InitCodec ==
    /\ description \in CodecDescs
    /\ commands \in CodecCmdLists
    /\ pc = "input"
    /\ NoCodec
    /\ doc = <<>> /\ dirs = {} /\ out = "-" /\ name = 0
    /\ missing = <<>> /\ extra = <<>> /\ idx = 0 /\ action = "-"
    /\ plugin = NoPlugin /\ new_desc = <<>> /\ new_commands = <<>>

CodecFrame ==
    UNCHANGED <<doc, dirs, missing, extra, idx, action, out, name, description,
                commands, plugin, new_desc, new_commands>>

Encode ==
    /\ pc = "input"
    /\ encoded' = text_to_html(description, commands)
    /\ pc' = "encoded"
    /\ UNCHANGED decoded
    /\ CodecFrame

Decode ==
    /\ pc = "encoded"
    /\ decoded' = parse_plugin_content(encoded)
    /\ pc' = "decoded"
    /\ UNCHANGED encoded
    /\ CodecFrame

NextCodec == Encode \/ Decode

SpecCodec == InitCodec /\ [][NextCodec]_vars

----------------------------------------------------------------------------
(* Properties *)

TocNames == NamesOf(doc, "a")
BodyNames == NamesOf(doc, "h3")

Ascending(s) == \A i \in 1..(Len(s) - 1) : s[i] < s[i + 1]

Occurrences(s, x) == Cardinality({i \in 1..Len(s) : s[i] = x})

MarkerMatches(html) ==
    \A i \in 1..Len(html) :
        html[i].t = "count" => html[i].n = Len(NamesOf(html, "h3"))

\* the heading, paragraph and separator of n, <<>> if the document has none
Fragment(html, n) ==
    LET i == entry_match(html, n)
    IN  IF i = 0 THEN <<>> ELSE SubSeq(html, i, i + 2)

\* C1: after every write (the step that printed added, updated or deleted) the
\* count marker holds the number of headings of the written document.
C1_CountMatchesFragments ==
    out \in {"added", "updated", "deleted"} => MarkerMatches(doc)

C1_Witness ==
    /\ out = "added"
    /\ Len(BodyNames) = 3
    /\ Count(3) \in Range(doc)

\* C2: from a document whose table of contents and body name the same entries,
\* every name of the table of contents has exactly one fragment and every
\* fragment exactly one link, whatever was added and deleted.
C2_TocMatchesBody ==
    \A n \in Names :
        /\ Occurrences(TocNames, n) = Occurrences(BodyNames, n)
        /\ Occurrences(BodyNames, n) <= 1

\* C3: links and fragments are in ascending order, and the fragment of the
\* name just added stands directly before the closing marker when the name
\* sorts last, directly before the heading of the next name otherwise.
C3_AddKeepsOrder ==
    /\ Ascending(TocNames)
    /\ Ascending(BodyNames)
    /\ out = "added" =>
          LET i == entry_match(doc, name)
              later == {m \in Range(BodyNames) : m > name}
          IN  /\ i # 0
              /\ IF later = {}
                 THEN doc[i + 3] = ArticleClose
                 ELSE doc[i + 3] = H3(CHOOSE m \in later : \A k \in later : m <= k)

\* C4: after add(name) the names read back from the document hold name
\* exactly once and are sorted.
C4_AddedExactlyOnce ==
    out = "added" =>
        LET plugins == get_plugins_from_html(doc)
        IN  /\ Occurrences(plugins, name) = 1
            /\ \A i \in 1..(Len(plugins) - 1) : plugins[i] <= plugins[i + 1]

\* C5: a delete removes the link and the fragment of the name, keeps the link
\* and the fragment of every other name, and leaves the marker equal to the
\* number of fragments.
C5_DeleteRemovesName ==
    [][(pc = "menu" /\ out' = "deleted") =>
          /\ name' \notin Range(NamesOf(doc', "a"))
          /\ name' \notin Range(NamesOf(doc', "h3"))
          /\ \A m \in Names \ {name'} :
                /\ Occurrences(NamesOf(doc', "a"), m) = Occurrences(TocNames, m)
                /\ Fragment(doc', m) = Fragment(doc, m)
          /\ MarkerMatches(doc')]_vars

C5_Witness ==
    /\ out = "deleted"
    /\ Len(BodyNames) = 2
    /\ Len(TocNames) = 2
    /\ name \notin Range(BodyNames)

\* C6: decoding the encoded description and command lines gives back the
\* same description and the same command lines in the same order, for command
\* names without reserved characters.
PlainName(cmd) ==
    split1(cmd, <<" ">>)[1] = escape(split1(cmd, <<" ">>)[1])

C6_RoundTrip ==
    (pc = "decoded" /\ \A i \in 1..Len(commands) : PlainName(commands[i]))
        => decoded = <<description, commands>>

\* C7: in an edit session the document stays what it was when the entry was
\* loaded until the session ends; the only write is the save that ends the
\* session, made only if the draft differs from what was loaded; a discard
\* or a save of an unchanged draft leaves the document as loaded.
C7_EditSessionAtomic ==
    [][pc = "edit" =>
          /\ doc = plugin.html
          /\ pc' = "edit" => (doc' = doc /\ out' = out)
          /\ (doc' # doc \/ out' = "updated") =>
                /\ pc' = "return"
                /\ out' = "updated"
                /\ new_desc # plugin.description \/ new_commands # plugin.commands
                /\ \A m \in Names \ {plugin.name} : Fragment(doc', m) = Fragment(doc, m)
          /\ out' \in {"discarded", "unchanged"} => doc' = plugin.html]_vars

C7_Witness ==
    /\ pc = "edit"
    /\ new_desc # plugin.description
    /\ new_commands # plugin.commands
    /\ doc = plugin.html

\* C8: when add finds no table of contents or no place to insert the
\* fragment, or edit does not find the entry, the document stays as it was
\* and no success is printed.
InsertionPoint(html, n) ==
    IF \E m \in Range(NamesOf(html, "h3")) : m > n
    THEN TRUE
    ELSE \E i \in 1..(Len(html) - 1) :
            html[i].t = "hr" /\ html[i + 1].t = "article_close"

C8_MismatchLeavesDocument ==
    [][/\ (pc = "sync" /\ action' \in {"y", ""}
              /\ (toc_match(doc)[1] = 0 \/ ~InsertionPoint(doc, missing[idx])))
          => (doc' = doc /\ out' # "added")
       /\ (pc = "menu" /\ out' = "notfound") => doc' = doc]_vars

\* C9: the paragraph stored by an add or an update holds no '<' and no '>'
\* beside its markup, and '&' only as the start of an entity.
StoredText(c) ==
    replace(replace(replace(replace(c, LABEL, <<>>), BR, <<>>),
                    CODE_OPEN, <<>>), CODE_CLOSE, <<>>)

Escaped(s) ==
    \A i \in 1..Len(s) :
        /\ s[i] \notin {"<", ">"}
        /\ s[i] = "&" => (MatchAt(s, i, AMP) \/ MatchAt(s, i, LT) \/ MatchAt(s, i, GT))

C9_StoredEscaped ==
    (out \in {"added", "updated"} /\ entry_match(doc, name) # 0)
        => Escaped(StoredText(Fragment(doc, name)[2].c))

\* C10: a step of the prompt loop of sync_plugins.  The names are prompted in
\* ascending order; the document changes only on an answer in adds; s moves to
\* the next name and q leaves the loop, both without a write; listing the
\* extra names writes nothing, and no step removes a fragment.
SyncStep(adds) ==
    /\ pc = "sync" =>
          /\ Ascending(missing)
          /\ name' = missing[idx]
          /\ doc' # doc => action' \in adds
          /\ action' = "s" => (doc' = doc /\ idx' = idx + 1)
          /\ action' = "q" => (doc' = doc /\ pc' = "extra")
    /\ pc = "extra" => (doc' = doc /\ pc' = "return")
    /\ pc \in {"sync", "extra"} =>
          \A m \in Range(BodyNames) : Fragment(doc', m) = Fragment(doc, m)

\* C10 as claimed: an entry is added only when the answer is y.
C10_AddOnlyOnY == [][SyncStep({"y"})]_vars

\* C10 as amended: an entry is added only when the answer is y or empty.
C10_AddOnlyOnYOrEmpty == [][SyncStep({"y", ""})]_vars

C10_Witness ==
    /\ pc = "sync"
    /\ action = ""
    /\ out = "added"
    /\ name \in Range(BodyNames)
    /\ Len(missing) = 2
    /\ extra # <<>>

====
